---- MODULE Spec2Model ----
(***************************************************************************)
(* The hook produced by useUserFactory                                     *)
(* (packages/composables/src/factories/useUserFactory.ts).                 *)
(*                                                                         *)
(* One hook instance owns three shared cells (user, loading, error) and    *)
(* seven wrapped asynchronous operations.  A wrapped operation runs in two *)
(* atomic steps of the event loop: the synchronous part up to the await of *)
(* the injected implementation (the "Call" actions), and the continuation  *)
(* that runs when the injected implementation settles (the "Resolved" and  *)
(* "Rejected" actions), which ends with the wrapper's own promise          *)
(* settling.  Steps of different invocations interleave only at the await. *)
(* Parameters are taken to be well typed (an object is always passed).     *)
(***************************************************************************)
EXTENDS Naturals, Sequences, FiniteSets

\* Number of invocations of wrapped operations in one behaviour.
MaxCalls == 2

NULL == "null"

\* Values the injected implementations may return as USER, and throw.
Users == {"u1"}
Errors == {"e1"}
Values == Users \cup {NULL}

Ops == {"updateUser", "register", "login", "logout", "changePassword", "load", "updateEmail"}

VARIABLES
    user,      \* sharedRef 'useUser-user'
    loading,   \* sharedRef 'useUser-loading'
    error,     \* sharedRef 'useUser-error': the error map
    calls,     \* the invocations made so far, in the order they were invoked
    \* The checkout Shipping page (packages/theme/pages/Checkout/Shipping.vue):
    isFormSubmitted,      \* ref(false)
    shouldDisplayButton,  \* ref(false)
    form,                 \* the address form, as far as its origin goes
    mount,                \* how far the onMounted hook has run
    saves,                \* the handleFormSubmit calls made, each awaiting save()
    route                 \* the route shown

\* The variables of the page; the operations of the hook leave them alone.
pageVars == <<isFormSubmitted, shouldDisplayButton, form, mount, saves, route>>

\* The variables of the hook; the handlers of the page leave them alone.
hookVars == <<user, loading, error, calls>>

vars == <<user, loading, error, calls,
          isFormSubmitted, shouldDisplayButton, form, mount, saves, route>>

\* Number of submissions of the shipping form in one behaviour.
MaxSubmits == 2

Forms == {"blank", "default", "edited"}

errorsFactory == [o \in Ops |-> NULL]

\* A USER value that is falsy without being null (USER is a type parameter).
EMPTY == ""

Falsy == {NULL, EMPTY}

\* Boolean(x) of JavaScript on the values of the model.
Boolean(x) == x \notin Falsy

\* The computed view takes user to be null whenever it is not a known user.
isAuthenticatedNotNull == user # NULL

isAuthenticated == Boolean(user)

\* An invocation: the operation, the promise the wrapper returned, how the
\* injected implementation settled and with what.  userAtCall (user.value when
\* the wrapper was invoked, the currentUser handed to the implementation) and
\* settledAt (how many invocations had been made when this one settled, 0 while
\* it is in flight) record history; log lists the levels of the Logger calls the
\* invocation has made.
CallRecords ==
    [op : Ops, userAtCall : Values \cup {EMPTY}, promise : {"pending", "fulfilled", "rejected"},
     impl : {"pending", "resolved", "rejected"}, result : Values \cup Errors,
     settledAt : 0..MaxCalls, log : Seq({"debug", "error"})]

TypeOK ==
    /\ user \in Values \cup {EMPTY}
    /\ loading \in BOOLEAN
    /\ error \in [Ops -> Errors \cup {NULL}]
    /\ calls \in Seq(CallRecords)
    /\ Len(calls) <= MaxCalls
    /\ isFormSubmitted \in BOOLEAN
    /\ shouldDisplayButton \in BOOLEAN
    /\ form \in Forms
    /\ mount \in {"created", "loadingUserShipping", "mounted"}
    /\ saves \in Seq([promise : {"pending", "fulfilled", "rejected"}, shippingDetails : Forms])
    /\ Len(saves) <= MaxSubmits
    /\ route \in {"shipping", "billing"}

Init ==
    /\ user = NULL
    /\ loading = FALSE
    /\ error = errorsFactory
    /\ calls = <<>>
    /\ isFormSubmitted = FALSE
    /\ shouldDisplayButton = FALSE
    /\ form = "blank"
    /\ mount = "created"
    /\ saves = <<>>
    /\ route = "shipping"

\* The wrapper op is invoked: an async function starts and returns a promise.
\* A wrapper that hands the implementation no current user.
InvokeWithoutCurrentUser(op) ==
    /\ Len(calls) < MaxCalls
    /\ calls' = Append(calls, [op |-> op, userAtCall |-> NULL, promise |-> "pending",
                               impl |-> "pending", result |-> NULL, settledAt |-> 0,
                               log |-> <<"debug">>])
    /\ UNCHANGED pageVars

Invoke(op) ==
    /\ Len(calls) < MaxCalls
    /\ calls' = Append(calls, [op |-> op, userAtCall |-> user, promise |-> "pending",
                               impl |-> "pending", result |-> NULL, settledAt |-> 0,
                               log |-> <<"debug">>])
    /\ UNCHANGED pageVars

\* Invocation i of op is suspended at its await.
\* Invocations serialized: the continuation of invocation i runs only once every
\* earlier invocation has settled.
AwaitingInTurn(i, op) ==
    /\ i \in 1..Len(calls)
    /\ calls[i].op = op
    /\ calls[i].promise = "pending"
    /\ \A j \in 1..(i - 1) : calls[j].promise # "pending"

Awaiting(i, op) ==
    /\ i \in 1..Len(calls)
    /\ calls[i].op = op
    /\ calls[i].promise = "pending"

\* A continuation whose catch block makes no Logger.error call.
SettleUnlogged(i, how, r, p) ==
    /\ calls' = [calls EXCEPT ![i] = [@ EXCEPT !.promise = p, !.impl = how, !.result = r,
                                               !.settledAt = Len(calls)]]
    /\ UNCHANGED pageVars

\* The wrapper's continuation ran to its end and its promise settled; on the way
\* a catch block called Logger.error.
Settle(i, how, r, p) ==
    /\ calls' = [calls EXCEPT ![i] = [@ EXCEPT !.promise = p, !.impl = how, !.result = r,
                                               !.settledAt = Len(calls),
                                               !.log = IF how = "rejected"
                                                       THEN Append(@, "error") ELSE @]]
    /\ UNCHANGED pageVars

\* setUser also returning loading to false.
setUserStopsLoading(newUser) ==
    /\ user' = newUser
    /\ loading' = FALSE
    /\ UNCHANGED <<error, calls>>
    /\ UNCHANGED pageVars

\* setUser also clearing the error map.
setUserClearsErrors(newUser) ==
    /\ user' = newUser
    /\ error' = errorsFactory
    /\ UNCHANGED <<loading, calls>>
    /\ UNCHANGED pageVars

setUser(newUser) ==
    /\ user' = newUser
    /\ UNCHANGED <<loading, error, calls>>
    /\ UNCHANGED pageVars

\* The error map is left as it was.
resetErrorValueKeepsErrors == error' = error

resetErrorValue == error' = errorsFactory

\* ---- updateUser, register, login, changePassword, load, updateEmail ----
\* Call: Logger.debug, resetErrorValue(), loading.value = true, the injected
\* implementation is invoked and the wrapper suspends at the await.
\* Resolved: the awaited implementation fulfilled with v; the rest of the try block
\* and the finally block run, and the wrapper's promise fulfils.
\* Rejected: the awaited implementation threw e; the catch block and the finally
\* block run, and the wrapper's promise fulfils (nothing is rethrown).

updateUserCall ==
    /\ Invoke("updateUser")
    /\ resetErrorValue
    /\ loading' = TRUE
    /\ UNCHANGED user

\* updateUser without error.value.updateUser = null on the success path.
updateUserResolvedKeepsError(i, v) ==
    /\ Awaiting(i, "updateUser")
    /\ user' = v
    /\ UNCHANGED error
    /\ loading' = FALSE
    /\ Settle(i, "resolved", v, "fulfilled")

updateUserResolved(i, v) ==
    /\ Awaiting(i, "updateUser")
    /\ user' = v
    /\ error' = [error EXCEPT !.updateUser = NULL]
    /\ loading' = FALSE
    /\ Settle(i, "resolved", v, "fulfilled")

\* updateUser without its finally block on the failure path.
updateUserRejectedKeepsLoading(i, e) ==
    /\ Awaiting(i, "updateUser")
    /\ error' = [error EXCEPT !.updateUser = e]
    /\ UNCHANGED <<user, loading>>
    /\ Settle(i, "rejected", e, "fulfilled")

updateUserRejected(i, e) ==
    /\ Awaiting(i, "updateUser")
    /\ error' = [error EXCEPT !.updateUser = e]
    /\ loading' = FALSE
    /\ UNCHANGED user
    /\ Settle(i, "rejected", e, "fulfilled")

registerCall ==
    /\ Invoke("register")
    /\ resetErrorValue
    /\ loading' = TRUE
    /\ UNCHANGED user

\* register assigning the result of the implementation to user.
registerResolvedAssigns(i, v) ==
    /\ Awaiting(i, "register")
    /\ user' = v
    /\ error' = [error EXCEPT !.register = NULL]
    /\ loading' = FALSE
    /\ Settle(i, "resolved", v, "fulfilled")

registerResolved(i, v) ==
    /\ Awaiting(i, "register")
    /\ UNCHANGED user
    /\ error' = [error EXCEPT !.register = NULL]
    /\ loading' = FALSE
    /\ Settle(i, "resolved", v, "fulfilled")

\* register storing its error under the key of login.
registerRejectedWrongKey(i, e) ==
    /\ Awaiting(i, "register")
    /\ error' = [error EXCEPT !.login = e]
    /\ loading' = FALSE
    /\ UNCHANGED user
    /\ Settle(i, "rejected", e, "fulfilled")

registerRejected(i, e) ==
    /\ Awaiting(i, "register")
    /\ error' = [error EXCEPT !.register = e]
    /\ loading' = FALSE
    /\ UNCHANGED user
    /\ Settle(i, "rejected", e, "fulfilled")

loginCall ==
    /\ Invoke("login")
    /\ resetErrorValue
    /\ loading' = TRUE
    /\ UNCHANGED user

\* login assigning its result only if user is still what it was at the invocation.
loginResolvedUnlessChanged(i, v) ==
    /\ Awaiting(i, "login")
    /\ user' = IF user = calls[i].userAtCall THEN v ELSE user
    /\ error' = [error EXCEPT !.login = NULL]
    /\ loading' = FALSE
    /\ Settle(i, "resolved", v, "fulfilled")

loginResolved(i, v) ==
    /\ Awaiting(i, "login")
    /\ user' = v
    /\ error' = [error EXCEPT !.login = NULL]
    /\ loading' = FALSE
    /\ Settle(i, "resolved", v, "fulfilled")

\* login without its catch block: the error is not stored and leaves the wrapper.
loginRejectedRethrows(i, e) ==
    /\ Awaiting(i, "login")
    /\ loading' = FALSE
    /\ UNCHANGED <<user, error>>
    /\ Settle(i, "rejected", e, "rejected")

loginRejected(i, e) ==
    /\ Awaiting(i, "login")
    /\ error' = [error EXCEPT !.login = e]
    /\ loading' = FALSE
    /\ UNCHANGED user
    /\ Settle(i, "rejected", e, "fulfilled")

changePasswordCall ==
    /\ Invoke("changePassword")
    /\ resetErrorValue
    /\ loading' = TRUE
    /\ UNCHANGED user

changePasswordResolved(i, v) ==
    /\ Awaiting(i, "changePassword")
    /\ user' = v
    /\ error' = [error EXCEPT !.changePassword = NULL]
    /\ loading' = FALSE
    /\ Settle(i, "resolved", v, "fulfilled")

\* changePassword clearing user on the failure path.
changePasswordRejectedClearsUser(i, e) ==
    /\ Awaiting(i, "changePassword")
    /\ error' = [error EXCEPT !.changePassword = e]
    /\ loading' = FALSE
    /\ user' = NULL
    /\ Settle(i, "rejected", e, "fulfilled")

changePasswordRejected(i, e) ==
    /\ Awaiting(i, "changePassword")
    /\ error' = [error EXCEPT !.changePassword = e]
    /\ loading' = FALSE
    /\ UNCHANGED user
    /\ Settle(i, "rejected", e, "fulfilled")

\* load without loading.value = true.
loadCallWithoutLoading ==
    /\ Invoke("load")
    /\ resetErrorValue
    /\ UNCHANGED <<user, loading>>

loadCall ==
    /\ Invoke("load")
    /\ resetErrorValue
    /\ loading' = TRUE
    /\ UNCHANGED user

\* load awaiting the implementation without assigning its result.
loadResolvedDropsResult(i, v) ==
    /\ Awaiting(i, "load")
    /\ UNCHANGED user
    /\ error' = [error EXCEPT !.load = NULL]
    /\ loading' = FALSE
    /\ Settle(i, "resolved", v, "fulfilled")

loadResolved(i, v) ==
    /\ Awaiting(i, "load")
    /\ user' = v
    /\ error' = [error EXCEPT !.load = NULL]
    /\ loading' = FALSE
    /\ Settle(i, "resolved", v, "fulfilled")

\* load with a catch block that does not store the error.
loadRejectedDropsError(i, e) ==
    /\ Awaiting(i, "load")
    /\ loading' = FALSE
    /\ UNCHANGED <<user, error>>
    /\ Settle(i, "rejected", e, "fulfilled")

loadRejected(i, e) ==
    /\ Awaiting(i, "load")
    /\ error' = [error EXCEPT !.load = e]
    /\ loading' = FALSE
    /\ UNCHANGED user
    /\ Settle(i, "rejected", e, "fulfilled")

updateEmailCall ==
    /\ Invoke("updateEmail")
    /\ resetErrorValue
    /\ loading' = TRUE
    /\ UNCHANGED user

\* updateEmail assigning the (void) result of the implementation to user.
updateEmailResolvedAssigns(i) ==
    /\ Awaiting(i, "updateEmail")
    /\ user' = NULL
    /\ error' = [error EXCEPT !.updateEmail = NULL]
    /\ loading' = FALSE
    /\ Settle(i, "resolved", NULL, "fulfilled")

updateEmailResolved(i) ==
    /\ Awaiting(i, "updateEmail")
    /\ UNCHANGED user
    /\ error' = [error EXCEPT !.updateEmail = NULL]
    /\ loading' = FALSE
    /\ Settle(i, "resolved", NULL, "fulfilled")

updateEmailRejected(i, e) ==
    /\ Awaiting(i, "updateEmail")
    /\ error' = [error EXCEPT !.updateEmail = e]
    /\ loading' = FALSE
    /\ UNCHANGED user
    /\ Settle(i, "rejected", e, "fulfilled")

\* ---- logout: no loading.value write and no finally block ----
\* logout setting loading.value = true as the other operations do.
logoutCallSetsLoading ==
    /\ Invoke("logout")
    /\ resetErrorValue
    /\ loading' = TRUE
    /\ UNCHANGED user

logoutCall ==
    /\ Invoke("logout")
    /\ resetErrorValue
    /\ UNCHANGED <<user, loading>>

logoutResolved(i) ==
    /\ Awaiting(i, "logout")
    /\ error' = [error EXCEPT !.logout = NULL]
    /\ user' = NULL
    /\ UNCHANGED loading
    /\ Settle(i, "resolved", NULL, "fulfilled")

logoutRejected(i, e) ==
    /\ Awaiting(i, "logout")
    /\ error' = [error EXCEPT !.logout = e]
    /\ UNCHANGED <<user, loading>>
    /\ Settle(i, "rejected", e, "fulfilled")

Next ==
    \/ \E u \in Values : setUser(u)
    \/ updateUserCall
    \/ registerCall
    \/ loginCall
    \/ logoutCall
    \/ changePasswordCall
    \/ loadCall
    \/ updateEmailCall
    \/ \E i \in 1..Len(calls), v \in Values : updateUserResolved(i, v)
    \/ \E i \in 1..Len(calls), v \in Values : registerResolved(i, v)
    \/ \E i \in 1..Len(calls), v \in Values : loginResolved(i, v)
    \/ \E i \in 1..Len(calls) : logoutResolved(i)
    \/ \E i \in 1..Len(calls), v \in Values : changePasswordResolved(i, v)
    \/ \E i \in 1..Len(calls), v \in Values : loadResolved(i, v)
    \/ \E i \in 1..Len(calls) : updateEmailResolved(i)
    \/ \E i \in 1..Len(calls), e \in Errors : updateUserRejected(i, e)
    \/ \E i \in 1..Len(calls), e \in Errors : registerRejected(i, e)
    \/ \E i \in 1..Len(calls), e \in Errors : loginRejected(i, e)
    \/ \E i \in 1..Len(calls), e \in Errors : logoutRejected(i, e)
    \/ \E i \in 1..Len(calls), e \in Errors : changePasswordRejected(i, e)
    \/ \E i \in 1..Len(calls), e \in Errors : loadRejected(i, e)
    \/ \E i \in 1..Len(calls), e \in Errors : updateEmailRejected(i, e)

Spec == Init /\ [][Next]_vars

\* ---- Steps of an invocation, read off a pair of states ----

\* The wrapper op is invoked in this step.
InvokedStep(op) ==
    /\ Len(calls') = Len(calls) + 1
    /\ calls'[Len(calls')].op = op

\* Invocation i settles in this step.
SettlesStep(i) ==
    /\ calls[i].promise = "pending"
    /\ Len(calls') = Len(calls)
    /\ calls'[i].promise # "pending"

\* Invocation i settles in this step, its injected implementation having succeeded.
SucceedsStep(i) == SettlesStep(i) /\ calls'[i].impl = "resolved"

\* Invocation i settles in this step, its injected implementation having failed.
FailsStep(i) == SettlesStep(i) /\ calls'[i].impl = "rejected"

InFlight == {i \in 1..Len(calls) : calls[i].promise = "pending"}

\* ---- C1 ----
\* C1: when the injected implementation of an invocation fails with e, e is stored
\* in error[op] and the wrapper's promise fulfils; no invocation ends rejected.
C1_FailuresAbsorbed ==
    [][/\ \A i \in 1..Len(calls) :
            FailsStep(i) => /\ error'[calls[i].op] = calls'[i].result
                            /\ calls'[i].result \in Errors
                            /\ calls'[i].promise = "fulfilled"
       /\ \A i \in 1..Len(calls') : calls'[i].promise # "rejected"]_vars

C1_Witness ==
    \E i \in 1..Len(calls), j \in 1..Len(calls) :
        /\ calls[i].op = "login" /\ calls[j].op = "logout"
        /\ calls[i].impl = "rejected" /\ calls[j].impl = "rejected"
        /\ calls[i].promise = "fulfilled" /\ calls[j].promise = "fulfilled"
        /\ error["login"] \in Errors /\ error["logout"] \in Errors

\* ---- C2 ----
\* C2 as stated: loading is true whenever some invocation is in flight.
C2_Original == InFlight # {} => loading = TRUE

\* C2 as amended: loading is true whenever an invocation of an operation other
\* than logout is in flight and no other invocation of an operation other than
\* logout has settled since it was invoked.
C2_LoadingWhileInFlight ==
    \A i \in InFlight :
        (/\ calls[i].op # "logout"
         /\ \A j \in 1..Len(calls) :
                (j # i /\ calls[j].op # "logout" /\ calls[j].promise # "pending")
                    => calls[j].settledAt < i)
            => loading = TRUE

C2_Witness ==
    \E i \in InFlight, j \in InFlight :
        /\ calls[i].op = "load" /\ calls[j].op = "changePassword"
        /\ loading = TRUE

\* ---- C3 ----
\* C3: in every state in which no invocation is in flight, loading is false.
C3_LoadingReleased == InFlight = {} => loading = FALSE

C3_Witness ==
    /\ Len(calls) = 2
    /\ InFlight = {}
    /\ calls[1].op = "updateUser" /\ calls[1].impl = "rejected"
    /\ calls[2].op = "updateEmail" /\ calls[2].impl = "resolved"
    /\ calls[2].settledAt = 2 /\ calls[1].settledAt = 2
    /\ loading = FALSE

\* ---- C4 ----
\* C4: the step that invokes any of the seven wrapped operations (logout included)
\* leaves every entry of the error map null, whatever the entries held before.
C4_CallClearsErrors ==
    [][\A op \in Ops : InvokedStep(op) => \A x \in Ops : error'[x] = NULL]_vars

C4_Witness ==
    /\ Len(calls) = 2
    /\ calls[1].op = "login" /\ calls[1].impl = "rejected" /\ calls[1].settledAt = 1
    /\ calls[2].op = "logout" /\ calls[2].promise = "pending"
    /\ error["login"] = NULL

\* ---- C5 ----
\* C5 as stated: for login, register, load, updateUser and changePassword, when the
\* injected implementation succeeds with v, user equals v when the promise settles.
C5_Original ==
    [][\A i \in 1..Len(calls) :
          (/\ SucceedsStep(i)
           /\ calls[i].op \in {"login", "register", "load", "updateUser", "changePassword"})
              => user' = calls'[i].result]_vars

\* C5 as amended: for login, load, updateUser and changePassword (register is not
\* among them), when the injected implementation succeeds with v, user equals v
\* when the wrapper's promise settles.
C5_ResultAssigned ==
    [][\A i \in 1..Len(calls) :
          (/\ SucceedsStep(i)
           /\ calls[i].op \in {"login", "load", "updateUser", "changePassword"})
              => user' = calls'[i].result]_vars

C5_Witness ==
    \E i \in 1..Len(calls), j \in 1..Len(calls) :
        /\ calls[i].op = "login" /\ calls[i].impl = "resolved" /\ calls[i].result = "u1"
        /\ calls[i].userAtCall = NULL
        /\ calls[j].op = "changePassword" /\ calls[j].impl = "resolved"
        /\ calls[j].userAtCall = "u1" /\ calls[j].result = NULL
        /\ calls[j].settledAt = 2 /\ calls[i].settledAt = 1
        /\ user = NULL

\* ---- C6 ----
\* C6 as stated: when a register invocation succeeds, user equals the value it had
\* before the invocation and error.register is null.
C6_Original ==
    [][\A i \in 1..Len(calls) :
          (SucceedsStep(i) /\ calls[i].op = "register")
              => /\ user' = calls[i].userAtCall
                 /\ error'["register"] = NULL]_vars

\* C6 as amended: a register invocation that succeeds does not assign the returned
\* value: the step in which it settles leaves user as it was just before that step,
\* and leaves error.register null.
C6_RegisterKeepsUser ==
    [][\A i \in 1..Len(calls) :
          (SucceedsStep(i) /\ calls[i].op = "register")
              => /\ user' = user
                 /\ error'["register"] = NULL]_vars

C6_Witness ==
    \E i \in 1..Len(calls) :
        /\ calls[i].op = "register" /\ calls[i].impl = "resolved"
        /\ calls[i].result = "u1" /\ calls[i].settledAt = Len(calls)
        /\ calls[i].userAtCall = NULL /\ user = NULL
        /\ error["register"] = NULL

\* ---- C7 ----
\* C7: a logout invocation that succeeds sets user to null whatever its prior
\* value, and every step of logout (its invocation, its success, its failure)
\* leaves loading as it was.
C7_LogoutClearsUserKeepsLoading ==
    [][/\ \A i \in 1..Len(calls) :
            (SucceedsStep(i) /\ calls[i].op = "logout") => user' = NULL
       /\ \A i \in 1..Len(calls) :
            (SettlesStep(i) /\ calls[i].op = "logout") => loading' = loading
       /\ InvokedStep("logout") => loading' = loading]_vars

C7_Witness ==
    \E i \in 1..Len(calls), j \in InFlight :
        /\ calls[i].op = "logout" /\ calls[i].impl = "resolved"
        /\ calls[i].userAtCall = "u1" /\ user = NULL
        /\ i < j /\ calls[i].settledAt = Len(calls)
        /\ loading = TRUE

\* ---- C8 ----
\* C8: no step of updateEmail (its invocation, its success, its failure) writes
\* user: the value after the step equals the value before it.
C8_UpdateEmailKeepsUser ==
    [][/\ \A i \in 1..Len(calls) :
            (SettlesStep(i) /\ calls[i].op = "updateEmail") => user' = user
       /\ InvokedStep("updateEmail") => user' = user]_vars

C8_Witness ==
    /\ Len(calls) = 2
    /\ calls[1].op = "updateEmail" /\ calls[1].impl = "resolved"
    /\ calls[2].op = "updateEmail" /\ calls[2].impl = "rejected"
    /\ calls[1].userAtCall = "u1" /\ calls[2].userAtCall = "u1"
    /\ user = "u1"

\* ---- C9 ----
\* C9 as stated: when an invocation of any operation succeeds, then as its promise
\* settles loading is false and every entry of the error map is null.
C9_Original ==
    [][\A i \in 1..Len(calls) :
          SucceedsStep(i) => /\ loading' = FALSE
                             /\ \A x \in Ops : error'[x] = NULL]_vars

\* C9 as amended: when an invocation of op succeeds, then as its promise settles
\* error[op] is null; loading is false unless op is logout, whose steps leave
\* loading as it was; and every other entry error[x] is null unless another
\* invocation, of x, failed after this one was invoked, in which case it holds
\* that failure's error.
C9_SuccessLeavesClean ==
    [][\A i \in 1..Len(calls) :
          SucceedsStep(i) =>
              /\ error'[calls[i].op] = NULL
              /\ calls[i].op # "logout" => loading' = FALSE
              /\ calls[i].op = "logout" => loading' = loading
              /\ \A x \in Ops :
                    error'[x] # NULL =>
                        \E j \in 1..Len(calls) :
                            /\ j # i
                            /\ calls[j].op = x
                            /\ calls[j].impl = "rejected"
                            /\ calls[j].result = error'[x]
                            /\ calls[j].settledAt >= i]_vars

C9_Witness ==
    /\ Len(calls) = 2
    /\ calls[1].op = "load" /\ calls[1].impl = "rejected" /\ calls[1].settledAt = 1
    /\ calls[2].op = "updateUser" /\ calls[2].impl = "resolved"
    /\ loading = FALSE
    /\ \A x \in Ops : error[x] = NULL

\* ---- C10 ----
\* C10 as stated: when an invocation of any operation fails, then as its promise
\* settles loading is false and user equals the value it had when the invocation
\* was made.
C10_Original ==
    [][\A i \in 1..Len(calls) :
          FailsStep(i) => /\ loading' = FALSE
                          /\ user' = calls[i].userAtCall]_vars

\* C10 as amended: when an invocation of op fails, then as its promise settles
\* loading is false unless op is logout, whose steps leave loading as it was, and
\* the step in which it settles leaves user as it was just before that step.
C10_FailureKeepsUser ==
    [][\A i \in 1..Len(calls) :
          FailsStep(i) =>
              /\ calls[i].op # "logout" => loading' = FALSE
              /\ calls[i].op = "logout" => loading' = loading
              /\ user' = user]_vars

C10_Witness ==
    \E i \in 1..Len(calls) :
        /\ calls[i].op = "changePassword" /\ calls[i].impl = "rejected"
        /\ calls[i].settledAt = Len(calls)
        /\ calls[i].userAtCall = "u1" /\ user = "u1"
        /\ loading = FALSE

\* A step of the wrapping logic: an invocation is made or an invocation settles.
WrapperStep ==
    \/ Len(calls') = Len(calls) + 1
    \/ \E i \in 1..Len(calls) : SettlesStep(i)

\* ---- C11 ----
\* C11 as stated: user, loading and the error map change only in steps of a
\* wrapped operation (its invocation, its success, its failure).
C11_Original ==
    [][(user' # user \/ loading' # loading \/ error' # error) => WrapperStep]_vars

\* C11 as amended: of the functions on the surface returned by useUser, setUser
\* changes user outside the wrapping logic; loading and the error map change only
\* in steps of a wrapped operation, and user changes only in such a step or by
\* setUser.
C11_OnlyWrapperAndSetUser ==
    [][/\ (loading' # loading \/ error' # error) => WrapperStep
       /\ user' # user => (WrapperStep \/ \E u \in Values : setUser(u))]_vars

C11_Witness ==
    /\ Len(calls) = 1
    /\ calls[1].op = "login" /\ calls[1].promise = "pending"
    /\ calls[1].userAtCall = NULL
    /\ user = "u1"
    /\ loading = TRUE

\* ---- C12 ----
\* The step in which a load fails after a changePassword, invoked while that load
\* was in flight, has already settled.
LoadFailsAfterChangePassword(i, j) ==
    /\ i < j
    /\ calls[i].op = "load"
    /\ calls[j].op = "changePassword"
    /\ calls[j].promise # "pending"
    /\ FailsStep(i)

\* C12 as stated: load is invoked, changePassword is invoked before load settles
\* and settles first, load then fails; then loading is false and error.load is null.
C12_Original ==
    [][\A i \in 1..Len(calls), j \in 1..Len(calls) :
          LoadFailsAfterChangePassword(i, j)
              => /\ loading' = FALSE
                 /\ error'["load"] = NULL]_vars

\* C12 as amended: in that scenario loading is false after both have settled, and
\* error.load holds the error load failed with: the clear made when changePassword
\* was invoked ran before load failed, and nothing clears the map afterwards.
C12_LoadErrorSurvives ==
    [][\A i \in 1..Len(calls), j \in 1..Len(calls) :
          LoadFailsAfterChangePassword(i, j)
              => /\ loading' = FALSE
                 /\ error'["load"] = calls'[i].result
                 /\ error'["load"] \in Errors]_vars

C12_Witness ==
    /\ Len(calls) = 2
    /\ calls[1].op = "load" /\ calls[1].impl = "rejected"
    /\ calls[2].op = "changePassword" /\ calls[2].impl = "resolved"
    /\ calls[1].settledAt = 2 /\ calls[2].settledAt = 2
    /\ loading = FALSE
    /\ error["load"] = calls[1].result
    /\ error["load"] \in Errors

\* ---- C13 ----
\* The continuation of invocation i: whichever wrapper it is an invocation of, its
\* injected implementation settles (with some value, or some error) and the
\* wrapper runs to its end.
Continuation(i) ==
    \/ \E v \in Values : updateUserResolved(i, v)
    \/ \E v \in Values : registerResolved(i, v)
    \/ \E v \in Values : loginResolved(i, v)
    \/ logoutResolved(i)
    \/ \E v \in Values : changePasswordResolved(i, v)
    \/ \E v \in Values : loadResolved(i, v)
    \/ updateEmailResolved(i)
    \/ \E e \in Errors : updateUserRejected(i, e)
    \/ \E e \in Errors : registerRejected(i, e)
    \/ \E e \in Errors : loginRejected(i, e)
    \/ \E e \in Errors : logoutRejected(i, e)
    \/ \E e \in Errors : changePasswordRejected(i, e)
    \/ \E e \in Errors : loadRejected(i, e)
    \/ \E e \in Errors : updateEmailRejected(i, e)

\* Every injected implementation eventually settles, and the event loop then runs
\* the continuation awaiting it.
FairSpec == Spec /\ \A i \in 1..MaxCalls : WF_vars(Continuation(i))

\* C13: an invocation in flight can always take its continuation, whatever the
\* other invocations are doing (it waits for none, is queued behind none); every
\* invocation in flight eventually has its promise fulfilled (none is cancelled);
\* and when none is in flight loading is false.
C13_EveryInvocationSettles ==
    /\ [](\A i \in InFlight : ENABLED Continuation(i))
    /\ \A i \in 1..MaxCalls :
          (i \in InFlight) ~> (i \in 1..Len(calls) /\ calls[i].promise = "fulfilled")
    /\ [](InFlight = {} => loading = FALSE)

C13_Witness ==
    /\ Len(calls) = 2
    /\ calls[1].op = "load" /\ calls[1].promise = "pending"
    /\ calls[2].op = "updateUser" /\ calls[2].promise = "fulfilled"
    /\ loading = FALSE

\* ---- C14 ----
\* A consumer may also hand setUser a falsy value that is not null.
AuthNext ==
    \/ Next
    \/ setUser(EMPTY)

AuthSpec == Init /\ [][AuthNext]_vars

\* C14: in every reachable state isAuthenticated is the truthiness of user: false
\* when user is null, false when user is another falsy value, true when user is a
\* user record; user is always one of these.
C14_AuthenticatedIffTruthy ==
    /\ user \in Users \cup {NULL, EMPTY}
    /\ user = NULL => ~isAuthenticated
    /\ user = EMPTY => ~isAuthenticated
    /\ user \in Users => isAuthenticated

\* A logout has succeeded after a login that set the user: user is null and
\* isAuthenticated is false.
C14_Witness ==
    /\ Len(calls) = 2
    /\ calls[1].op = "login" /\ calls[1].impl = "resolved" /\ calls[1].result = "u1"
    /\ calls[1].settledAt = 1
    /\ calls[2].op = "logout" /\ calls[2].impl = "resolved"
    /\ calls[2].userAtCall = "u1"
    /\ user = NULL
    /\ ~isAuthenticated

\* ---- C15 ----
\* How many Logger calls of a level an invocation has made.
LogCount(c, level) == Cardinality({k \in 1..Len(c.log) : c.log[k] = level})

\* C15 as stated: an invocation makes one debug-level call on entry, reports its
\* exit (a further call that is not error-level) when it settles, and makes one
\* error-level call if and only if the injected implementation failed.
C15_Original ==
    [][/\ \A op \in Ops :
            InvokedStep(op) => calls'[Len(calls')].log = <<"debug">>
       /\ \A i \in 1..Len(calls) :
            SettlesStep(i) =>
                /\ LogCount(calls'[i], "debug") > LogCount(calls[i], "debug")
                /\ LogCount(calls'[i], "error") =
                       IF calls'[i].impl = "rejected" THEN 1 ELSE 0]_vars

\* C15 as amended: an invocation makes one debug-level call on entry, before the
\* injected implementation is invoked, and one error-level call if and only if the
\* injected implementation failed; its exit is not reported: when it settles it
\* makes no Logger call besides that error-level one.
C15_EntryAndFailureLogged ==
    [][/\ \A op \in Ops :
            InvokedStep(op) => calls'[Len(calls')].log = <<"debug">>
       /\ \A i \in 1..Len(calls) :
            SettlesStep(i) =>
                /\ LogCount(calls'[i], "debug") = LogCount(calls[i], "debug")
                /\ LogCount(calls'[i], "error") =
                       IF calls'[i].impl = "rejected" THEN 1 ELSE 0
                /\ calls'[i].log =
                       IF calls'[i].impl = "rejected" THEN <<"debug", "error">>
                                                      ELSE <<"debug">>]_vars

C15_Witness ==
    /\ Len(calls) = 2
    /\ calls[1].op = "login" /\ calls[1].impl = "resolved"
    /\ calls[1].log = <<"debug">>
    /\ calls[2].op = "logout" /\ calls[2].impl = "rejected"
    /\ calls[2].log = <<"debug", "error">>

\* ---- C16 ----
\* The operations whose injected implementation is handed currentUser.
PassCurrentUser == {"updateUser", "changePassword", "updateEmail", "logout"}

\* C16: updateUser, changePassword, updateEmail and logout hand the implementation
\* the user value read when the wrapper is invoked; no later step changes the value
\* an invocation was handed, whatever happens to user meanwhile; and a successful
\* updateUser or changePassword sets user to its own result, whatever user was.
C16_CurrentUserSnapshot ==
    [][/\ \A op \in PassCurrentUser :
            InvokedStep(op) => calls'[Len(calls')].userAtCall = user
       /\ \A i \in 1..Len(calls) :
            /\ Len(calls') >= i
            /\ calls'[i].userAtCall = calls[i].userAtCall
       /\ \A i \in 1..Len(calls) :
            (SucceedsStep(i) /\ calls[i].op \in {"updateUser", "changePassword"})
                => user' = calls'[i].result]_vars

\* updateUser was invoked with no user, a login invoked after it set the user, and
\* updateUser then succeeded with the result it computed from no user.
C16_Witness ==
    /\ Len(calls) = 2
    /\ calls[1].op = "updateUser" /\ calls[1].userAtCall = NULL
    /\ calls[1].impl = "resolved" /\ calls[1].result = NULL
    /\ calls[2].op = "login" /\ calls[2].impl = "resolved" /\ calls[2].result = "u1"
    /\ calls[1].settledAt = 2 /\ calls[2].settledAt = 2
    /\ user = NULL

\* ---- C17 ----
\* The operations that write user when they succeed, and what they write.
WritesUser == {"login", "load", "updateUser", "changePassword", "logout"}

Written(c) == IF c.op = "logout" THEN NULL ELSE c.result

\* Invocations i and j overlapped, j having settled: j settled after i was invoked
\* (or was invoked while i, still in flight, was).
Overlapped(i, j) ==
    /\ i # j
    /\ calls[j].promise # "pending"
    /\ (j < i => calls[j].settledAt >= i)

\* C17: when two overlapping invocations that write user on success both succeed,
\* user is, once both have settled, the value written by the one that settled
\* last, whichever was invoked first; a logout settling after a login invoked
\* after it leaves user null and isAuthenticated false.
C17_LastSettledWins ==
    [][\A i \in 1..Len(calls), j \in 1..Len(calls) :
          (/\ SucceedsStep(i)
           /\ calls[i].op \in WritesUser
           /\ Overlapped(i, j)
           /\ calls[j].op \in WritesUser
           /\ calls[j].impl = "resolved")
              => /\ user' = Written(calls'[i])
                 /\ (calls[i].op = "logout" => ~isAuthenticated')]_vars

C17_Witness ==
    /\ Len(calls) = 2
    /\ calls[1].op = "logout" /\ calls[1].impl = "resolved"
    /\ calls[2].op = "login" /\ calls[2].impl = "resolved" /\ calls[2].result = "u1"
    /\ calls[1].settledAt = 2 /\ calls[2].settledAt = 2
    /\ user = NULL
    /\ ~isAuthenticated

\* ---- C18 ----
\* No two invocations were ever in flight at once: each settled before the next
\* was invoked.
NeverOverlapped ==
    \A i \in 1..Len(calls) :
        i < Len(calls) => (calls[i].promise # "pending" /\ calls[i].settledAt = i)

\* C18: if error[op] is not null, some invocation of op failed with exactly that
\* error and no wrapped operation has been invoked since that failure; so when
\* invocations never overlap at most one entry of the error map is not null.
C18_ErrorsAreFresh ==
    /\ \A op \in Ops :
          error[op] # NULL =>
              \E i \in 1..Len(calls) :
                  /\ calls[i].op = op
                  /\ calls[i].impl = "rejected"
                  /\ calls[i].result = error[op]
                  /\ calls[i].settledAt = Len(calls)
    /\ NeverOverlapped => Cardinality({op \in Ops : error[op] # NULL}) <= 1

C18_Witness ==
    /\ Len(calls) = 2
    /\ NeverOverlapped
    /\ calls[1].op = "updateUser" /\ calls[1].impl = "rejected" /\ calls[1].settledAt = 1
    /\ calls[2].op = "updateEmail" /\ calls[2].impl = "rejected"
    /\ error["updateEmail"] \in Errors
    /\ error["updateUser"] = NULL

\* ---- C19 ----
\* C19: setUser(u) sets user to u and leaves loading, every entry of the error map
\* and the invocations in flight as they were; an invocation in flight that writes
\* user on success still does so afterwards.
C19_SetUserFrame ==
    [][/\ \A u \in Values :
            setUser(u) => /\ user' = u
                          /\ loading' = loading
                          /\ error' = error
                          /\ calls' = calls
       /\ (calls' = calls) => (loading' = loading /\ error' = error)
       /\ \A i \in 1..Len(calls) :
            (SucceedsStep(i) /\ calls[i].op \in WritesUser)
                => user' = Written(calls'[i])]_vars

\* setUser set the user while a login was in flight (the logout invoked next was
\* handed that user); the logout failed, and the login then succeeded and
\* replaced the user.
C19_Witness ==
    /\ Len(calls) = 2
    /\ calls[1].op = "login" /\ calls[1].userAtCall = NULL
    /\ calls[1].impl = "resolved" /\ calls[1].result = NULL
    /\ calls[2].op = "logout" /\ calls[2].userAtCall = "u1"
    /\ calls[2].impl = "rejected"
    /\ calls[1].settledAt = 2
    /\ error["logout"] \in Errors
    /\ user = NULL

\* ---- The checkout Shipping page ----

\* onMounted starts: loadUserShipping() is awaited.
onMountedStart ==
    /\ mount = "created"
    /\ mount' = "loadingUserShipping"
    /\ UNCHANGED <<isFormSubmitted, shouldDisplayButton, form, saves, route>>
    /\ UNCHANGED hookVars

\* loadUserShipping() settled: the form is filled from the default address.
onMountedFillForm ==
    /\ mount = "loadingUserShipping"
    /\ mount' = "mounted"
    /\ form' = "default"
    /\ UNCHANGED <<isFormSubmitted, shouldDisplayButton, saves, route>>
    /\ UNCHANGED hookVars

\* The customer types into a field of the form (v-model).
editForm ==
    /\ route = "shipping"
    /\ form' = "edited"
    /\ UNCHANGED <<isFormSubmitted, shouldDisplayButton, mount, saves, route>>
    /\ UNCHANGED hookVars

\* handleFormSubmit setting isFormSubmitted before save() is awaited.
handleFormSubmitOptimistic ==
    /\ route = "shipping"
    /\ Len(saves) < MaxSubmits
    /\ saves' = Append(saves, [promise |-> "pending", shippingDetails |-> form])
    /\ isFormSubmitted' = TRUE
    /\ UNCHANGED <<shouldDisplayButton, form, mount, route>>
    /\ UNCHANGED hookVars

\* The form is submitted (the submit event of the form, which the page shows
\* throughout): handleFormSubmit maps the form and awaits save().
handleFormSubmit ==
    /\ route = "shipping"
    /\ Len(saves) < MaxSubmits
    /\ saves' = Append(saves, [promise |-> "pending", shippingDetails |-> form])
    /\ UNCHANGED <<isFormSubmitted, shouldDisplayButton, form, mount, route>>
    /\ UNCHANGED hookVars

\* save() fulfilled: handleFormSubmit resumes and sets isFormSubmitted.
handleFormSubmitSaved(k) ==
    /\ k \in 1..Len(saves)
    /\ saves[k].promise = "pending"
    /\ saves' = [saves EXCEPT ![k].promise = "fulfilled"]
    /\ isFormSubmitted' = TRUE
    /\ UNCHANGED <<shouldDisplayButton, form, mount, route>>
    /\ UNCHANGED hookVars

\* save() rejected: the await throws and handleFormSubmit ends there.
handleFormSubmitFailed(k) ==
    /\ k \in 1..Len(saves)
    /\ saves[k].promise = "pending"
    /\ saves' = [saves EXCEPT ![k].promise = "rejected"]
    /\ UNCHANGED <<isFormSubmitted, shouldDisplayButton, form, mount, route>>
    /\ UNCHANGED hookVars

\* VsfShippingProvider, rendered while isFormSubmitted, emits
\* shippingMethodSelected: displayBillingButton runs.
displayBillingButton ==
    /\ route = "shipping"
    /\ isFormSubmitted
    /\ shouldDisplayButton' = TRUE
    /\ UNCHANGED <<isFormSubmitted, form, mount, saves, route>>
    /\ UNCHANGED hookVars

\* VsfShippingProvider, rendered while isFormSubmitted, emits submit.
providerSubmit ==
    /\ route = "shipping"
    /\ isFormSubmitted
    /\ route' = "billing"
    /\ UNCHANGED <<isFormSubmitted, shouldDisplayButton, form, mount, saves>>
    /\ UNCHANGED hookVars

\* The "Continue to billing" button, rendered while shouldDisplayButton, is clicked.
continueToBilling ==
    /\ route = "shipping"
    /\ shouldDisplayButton
    /\ route' = "billing"
    /\ UNCHANGED <<isFormSubmitted, shouldDisplayButton, form, mount, saves>>
    /\ UNCHANGED hookVars

PageNext ==
    \/ onMountedStart
    \/ onMountedFillForm
    \/ editForm
    \/ handleFormSubmit
    \/ \E k \in 1..Len(saves) : handleFormSubmitSaved(k)
    \/ \E k \in 1..Len(saves) : handleFormSubmitFailed(k)
    \/ displayBillingButton
    \/ providerSubmit
    \/ continueToBilling

ShippingSpec == Init /\ [][PageNext]_vars

\* ---- C20 ----
\* C20: isFormSubmitted and shouldDisplayButton start false and never return to
\* false once true; isFormSubmitted becomes true only in a step in which a save
\* awaited by handleFormSubmit settles; and shouldDisplayButton is true only in
\* states where isFormSubmitted is true.
C20_SubmittedThenButton ==
    /\ (isFormSubmitted = FALSE /\ shouldDisplayButton = FALSE)
    /\ [][/\ isFormSubmitted => isFormSubmitted'
          /\ shouldDisplayButton => shouldDisplayButton'
          /\ (~isFormSubmitted /\ isFormSubmitted') =>
                \E k \in 1..Len(saves) :
                    /\ saves[k].promise = "pending"
                    /\ Len(saves') = Len(saves)
                    /\ saves'[k].promise = "fulfilled"]_vars
    /\ [](shouldDisplayButton => isFormSubmitted)

C20_Witness ==
    /\ Len(saves) = 2
    /\ saves[1].promise = "rejected"
    /\ saves[2].promise = "fulfilled"
    /\ saves[2].shippingDetails = "edited"
    /\ isFormSubmitted
    /\ shouldDisplayButton
    /\ route = "billing"

====
